---- MODULE Spec2Model ----
(***************************************************************************)
(* Model of backend/main.py: a Flask server (threaded=True) that exposes   *)
(* a webcam as a multipart stream with optional object detection.          *)
(* Every request runs on its own thread; a thread's step is one access to  *)
(* shared state together with the local computation that follows it.       *)
(***************************************************************************)
EXTENDS Integers, FiniteSets, Sequences, TLC

\* ------------------------------------------------------------------ bounds
NThreads == 2       \* request threads serving at the same time
MaxHandles == 3     \* capture handles the device hands out in one run
MaxLoads == 2       \* the count of successful model loads saturates here

Threads == 1..NThreads
Main == 0           \* the thread running the __main__ block
NoThread == -1      \* camera_lock is free
NoHandle == 0       \* camera is None / cap is None

VARIABLES
  \* module-level globals of main.py
  OBJECT_DETECTION_AVAILABLE, YOLO, camera, camera_lock, is_streaming,
  object_detection_model, object_detection_enabled,
  \* per request thread: position, response, locals of generate_frames
  pc, resp, cap, frame, exc, out, tried,
  \* the __main__ block
  main,
  \* the environment and what a test double would count
  installed, opened, released, imports, loadsOk, lastLoadFailed,
  stalled, emitted, late, carried, unslept

\* the capture device and its lock
camVars == <<camera, camera_lock, opened, released>>
\* the detection capability, the model and the flag
detVars == <<OBJECT_DETECTION_AVAILABLE, YOLO, object_detection_model,
             object_detection_enabled>>
detObs == <<installed, imports, loadsOk, lastLoadFailed>>
\* locals of one iteration of generate_frames
iterVars == <<cap, frame, exc, out>>
\* emitted: the response has carried a chunk; late: the flag is off and
\* the sequence has emitted a chunk since it was last switched off;
\* carried: the sequence was active when a start_stream switched the state
\* from Idle to Streaming (it was created before the stop_stream that made
\* the state Idle, since video_feed creates none while Idle); unslept: the
\* sequence has emitted a chunk and time.sleep has not run since
emitObs == <<emitted, late, carried, unslept>>
\* the notes kept about a running sequence only
seqObs == <<late, carried, unslept>>

vars == <<is_streaming, camVars, detVars, detObs, pc, resp, iterVars, tried,
          main, stalled, emitObs>>

\* ------------------------------------------------------------------ helpers
\* A request thread calls its handler whenever it is scheduled: the thread
\* is started when the server accepts the request, it is a daemon thread
\* that app.run() does not join, and so a handler may make its first access
\* to the shared state while or after the finally block of __main__ runs.
\* position of a thread inside generate_frames
LoopPcs == {"created", "loop", "gc_lock", "gc_open", "gc_ret", "read",
            "detect", "detect_model", "infer", "encode", "sleep"}
InLoop(t) == pc[t] \in LoopPcs

\* position of a thread inside a JSON request handler
ControlPcs == {"start_set", "stop_set", "en_import", "en_model", "init_avail",
               "init_import", "loading", "en_set", "st_avail", "st_import"}
ControlBusy == \E t \in Threads : pc[t] \in ControlPcs

IsOpen(h) == h # NoHandle /\ h \notin released

Goto(t, l) == pc' = [pc EXCEPT ![t] = l] /\ UNCHANGED resp
Reply(t, r) == /\ pc' = [pc EXCEPT ![t] = "done"]
               /\ resp' = [resp EXCEPT ![t] = r]
\* generate_frames returns (or is closed): the response body ends
EndSequence(t, r) == /\ Reply(t, r)
                     /\ late' = [late EXCEPT ![t] = FALSE]
                     /\ carried' = [carried EXCEPT ![t] = FALSE]
                     /\ unslept' = [unslept EXCEPT ![t] = FALSE]

\* ------------------------------------------------------------------ Init
Init ==
  /\ OBJECT_DETECTION_AVAILABLE = "None"
  /\ YOLO = "None"
  /\ camera = NoHandle
  /\ camera_lock = NoThread
  /\ is_streaming = FALSE
  /\ object_detection_model = "None"
  /\ object_detection_enabled = FALSE
  /\ pc = [t \in Threads |-> "idle"]
  /\ resp = [t \in Threads |-> "none"]
  /\ cap = [t \in Threads |-> NoHandle]
  /\ frame = [t \in Threads |-> "none"]
  /\ exc = [t \in Threads |-> FALSE]
  /\ out = [t \in Threads |-> "none"]
  /\ tried = [t \in Threads |-> FALSE]
  /\ main = "serving"
  /\ installed \in BOOLEAN
  /\ opened = 0
  /\ released = {}
  /\ imports = 0
  /\ loadsOk = 0
  /\ lastLoadFailed = FALSE
  /\ stalled = FALSE
  /\ emitted = [t \in Threads |-> FALSE]
  /\ late = [t \in Threads |-> FALSE]
  /\ carried = [t \in Threads |-> FALSE]
  /\ unslept = [t \in Threads |-> FALSE]

\* ------------------------------------------------------------------ /start_stream, /stop_stream
\* a start_stream that reports `started` whatever the flag is
StartAlways == TRUE

\* start_stream, line 136: the test of the flag.
StartFromIdle == ~is_streaming

\* start_stream, lines 136 and 139-140: the test of the flag; the write
\* follows in a later bytecode, so another thread may run in between.
StartStream(t) ==
  /\ pc[t] = "idle"
  /\ IF StartFromIdle
       THEN Goto(t, "start_set")
       ELSE Reply(t, "already_streaming")
  /\ UNCHANGED <<is_streaming, camVars, detVars, detObs, iterVars, tried,
                 main, stalled, emitObs>>

\* start_stream, lines 137-138.  A switch from Idle to Streaming restarts
\* streaming (stalled is the observer's note that a sequence ended on a
\* camera failure since the last restart).
StartSet(t) ==
  /\ pc[t] = "start_set"
  /\ is_streaming' = TRUE
  /\ stalled' = IF is_streaming THEN stalled ELSE FALSE
  /\ carried' = IF is_streaming THEN carried
                 ELSE [u \in Threads |-> carried[u] \/ InLoop(u)]
  /\ late' = IF is_streaming THEN late ELSE [u \in Threads |-> FALSE]
  /\ Reply(t, "started")
  /\ UNCHANGED <<camVars, detVars, detObs, iterVars, tried, main, emitted,
                 unslept>>

\* stop_stream, line 147.
StopStream(t) ==
  /\ pc[t] = "idle"
  /\ IF is_streaming
       THEN Goto(t, "stop_set")
       ELSE Reply(t, "already_stopped")
  /\ UNCHANGED <<is_streaming, camVars, detVars, detObs, iterVars, tried,
                 main, stalled, emitObs>>

\* stop_stream, lines 148-149.  A switch from Streaming to Idle starts the
\* observer's note of the chunks emitted after it.
StopSet(t) ==
  /\ pc[t] = "stop_set"
  /\ is_streaming' = FALSE
  /\ late' = IF is_streaming THEN [u \in Threads |-> FALSE] ELSE late
  /\ Reply(t, "stopped")
  /\ UNCHANGED <<camVars, detVars, detObs, iterVars, tried, main, stalled,
                 emitted, carried, unslept>>

\* ------------------------------------------------------------------ get_camera / release_camera
\* a `with` block that does not exclude anybody
LockIgnored == TRUE

\* `with camera_lock:` can be entered (lines 66 and 77).
LockFree == camera_lock = NoThread

\* get_camera, lines 66-67: take the lock and test the shared handle.
GcEnter(t) ==
  /\ pc[t] = "gc_lock"
  /\ LockFree
  /\ camera_lock' = t
  /\ Goto(t, IF camera = NoHandle THEN "gc_open" ELSE "gc_ret")
  /\ UNCHANGED <<is_streaming, camera, opened, released, detVars, detObs,
                 iterVars, tried, main, stalled, emitObs>>

\* a get_camera that keeps the capture that did not open
FailedOpenKept == MaxHandles + 1

\* get_camera, lines 69-71: what the shared handle is after a capture that
\* did not open.
FailedOpen == NoHandle

\* get_camera, lines 68-71: cv2.VideoCapture(0); a capture that is not
\* opened is dropped and the shared handle is None again.  The device
\* opens or not as it pleases (and no more than MaxHandles times).
GcOpen(t) ==
  /\ pc[t] = "gc_open"
  /\ \E ok \in BOOLEAN :
       IF ok /\ opened < MaxHandles
         THEN /\ opened' = opened + 1
              /\ camera' = opened + 1
         ELSE /\ camera' = FailedOpen
              /\ UNCHANGED opened
  /\ Goto(t, "gc_ret")
  /\ UNCHANGED <<is_streaming, camera_lock, released, detVars, detObs,
                 iterVars, tried, main, stalled, emitObs>>

\* a frame loop that switches streaming off when the camera fails
FlagClearedOnBreak == FALSE

\* generate_frames, lines 88-89 and 92-93: `break` leaves is_streaming as
\* it is.
FlagAfterBreak == is_streaming

\* get_camera, line 72, and generate_frames, lines 87-89: the handle is
\* returned as the lock is left; None ends the frame sequence.
GcReturn(t) ==
  /\ pc[t] = "gc_ret"
  /\ camera_lock' = NoThread
  /\ IF camera = NoHandle
       THEN /\ EndSequence(t, "ended_acquire")
            /\ stalled' = TRUE
            /\ is_streaming' = FlagAfterBreak
            /\ UNCHANGED cap
       ELSE /\ Goto(t, "read")
            /\ cap' = [cap EXCEPT ![t] = camera]
            /\ UNCHANGED <<stalled, is_streaming, seqObs>>
  /\ UNCHANGED <<camera, opened, released, detVars, detObs,
                 frame, exc, out, tried, main, emitted>>

\* __main__, lines 218-222: app.run() returns (normal end, interrupt or
\* error) and the finally block calls release_camera.
Shutdown ==
  /\ main = "serving"
  /\ main' = "rc_lock"
  /\ UNCHANGED <<is_streaming, camVars, detVars, detObs, pc, resp, iterVars,
                 tried, stalled, emitObs>>

\* release_camera, lines 77-78: take the lock and test the handle; with no
\* handle the block is left at once.
RcEnter ==
  /\ main = "rc_lock"
  /\ LockFree
  /\ IF camera # NoHandle
       THEN camera_lock' = Main /\ main' = "rc_release"
       ELSE UNCHANGED camera_lock /\ main' = "finally_done"
  /\ UNCHANGED <<is_streaming, camera, opened, released, detVars, detObs,
                 pc, resp, iterVars, tried, stalled, emitObs>>

\* release_camera, lines 79-80: camera.release(), camera = None, and the
\* lock is left.
RcRelease ==
  /\ main = "rc_release"
  /\ released' = released \cup {camera}
  /\ camera' = NoHandle
  /\ camera_lock' = NoThread
  /\ main' = "finally_done"
  /\ UNCHANGED <<is_streaming, opened, detVars, detObs, pc, resp, iterVars,
                 tried, stalled, emitObs>>

\* ------------------------------------------------------------------ /video_feed and generate_frames
\* video_feed, line 121: the cv2 module has no attribute `zeros` (the array
\* constructor is numpy's), so building the placeholder raises.
cv2_zeros == "AttributeError"

\* video_feed, lines 119-129: Idle builds the placeholder response;
\* Streaming hands generate_frames() to the response (line 128): the
\* generator is created and no line of its body has run; the body runs as
\* the server pulls chunks.
VideoFeed(t) ==
  /\ pc[t] = "idle"
  /\ IF ~is_streaming
       THEN IF cv2_zeros = "AttributeError"
              THEN Reply(t, "error500") /\ UNCHANGED <<out, emitted>>
              ELSE /\ Reply(t, "placeholder")
                   /\ out' = [out EXCEPT ![t] = "black"]
                   /\ emitted' = [emitted EXCEPT ![t] = TRUE]
       ELSE Goto(t, "created") /\ UNCHANGED <<out, emitted>>
  /\ UNCHANGED <<is_streaming, camVars, detVars, detObs, cap, frame, exc,
                 tried, main, stalled, late, carried, unslept>>

\* a while loop that never looks at the flag
LoopForever == TRUE

\* generate_frames, line 86: the condition of the while loop.
LoopContinues == is_streaming

\* generate_frames, line 86: top of an iteration; the first one runs when
\* the server pulls the first chunk of a generator just created.
LoopCheck(t) ==
  /\ pc[t] \in {"created", "loop"}
  /\ IF LoopContinues
       THEN Goto(t, "gc_lock") /\ UNCHANGED seqObs
       ELSE EndSequence(t, "ended_stop")
  /\ UNCHANGED <<is_streaming, camVars, detVars, detObs, iterVars, tried,
                 main, stalled, emitted>>

\* generate_frames, lines 91-93: cap.read() outside the lock, on the handle
\* get_camera returned; a released capture delivers no frame.  cap is not
\* used again before the next get_camera().
Read(t) ==
  /\ pc[t] = "read"
  /\ \E ok \in BOOLEAN :
       IF ok /\ IsOpen(cap[t])
         THEN /\ frame' = [frame EXCEPT ![t] = "raw"]
              /\ Goto(t, "detect")
              /\ UNCHANGED <<stalled, is_streaming, seqObs>>
         ELSE /\ EndSequence(t, "ended_read")
              /\ stalled' = TRUE
              /\ is_streaming' = FlagAfterBreak
              /\ UNCHANGED frame
  /\ cap' = [cap EXCEPT ![t] = NoHandle]
  /\ UNCHANGED <<camVars, detVars, detObs, exc, out, tried,
                 main, emitted>>

\* a frame loop that runs the inference whatever the flag is
DetectAlways == TRUE

\* generate_frames, line 96, first operand of `and`.
DetectEnabled == object_detection_enabled

\* generate_frames, line 96: the flag is read first; the model is looked at
\* only when the flag is on.
Detect(t) ==
  /\ pc[t] = "detect"
  /\ Goto(t, IF DetectEnabled THEN "detect_model" ELSE "encode")
  /\ UNCHANGED <<is_streaming, camVars, detVars, detObs, iterVars, tried,
                 main, stalled, emitObs>>

\* generate_frames, line 96, second operand of `and`.
DetectModel(t) ==
  /\ pc[t] = "detect_model"
  /\ Goto(t, IF object_detection_model # "None" THEN "infer" ELSE "encode")
  /\ UNCHANGED <<is_streaming, camVars, detVars, detObs, iterVars, tried,
                 main, stalled, emitObs>>

\* an inference exception that is not caught and ends the generator
InferenceErrorRaised == "raise"

\* generate_frames, lines 102-103: where the loop goes on after an
\* exception of the inference.
AfterInferenceError == "encode"

\* generate_frames, lines 97-103: the global is read again for the call (a
\* None by now raises TypeError); frame is reassigned only when plot()
\* has returned.
Infer(t) ==
  /\ pc[t] = "infer"
  /\ \E raises \in BOOLEAN :
       IF raises \/ object_detection_model = "None"
         THEN /\ exc' = [exc EXCEPT ![t] = TRUE]
              /\ IF AfterInferenceError = "encode"
                   THEN Goto(t, "encode")
                   ELSE Reply(t, "error500")
              /\ UNCHANGED frame
         ELSE /\ frame' = [frame EXCEPT ![t] = "annotated"]
              /\ Goto(t, "encode")
              /\ UNCHANGED exc
  /\ UNCHANGED <<is_streaming, camVars, detVars, detObs, cap, out, tried,
                 main, stalled, emitObs>>

\* a loop that goes straight to the next iteration after the encoding
SleepSkipped == "loop"

\* generate_frames, line 112: the statement that follows the encoding and
\* the yield, whether or not a chunk was emitted.
AfterEncode == "sleep"

\* generate_frames, lines 106-110: cv2.imencode and the yield of the chunk.
Encode(t) ==
  /\ pc[t] = "encode"
  /\ \E ok \in BOOLEAN :
       IF ok
         THEN /\ out' = [out EXCEPT ![t] = frame[t]]
              /\ emitted' = [emitted EXCEPT ![t] = TRUE]
              /\ late' = [late EXCEPT ![t] = @ \/ ~is_streaming]
              /\ unslept' = [unslept EXCEPT ![t] = TRUE]
         ELSE UNCHANGED <<out, emitted, late, unslept>>
  /\ frame' = [frame EXCEPT ![t] = "none"]
  /\ Goto(t, AfterEncode)
  /\ UNCHANGED <<is_streaming, camVars, detVars, detObs, cap, exc, tried,
                 main, stalled, carried>>

\* generate_frames as the body of the response of line 128: the server
\* closes the generator where it is suspended.  Suspended at the yield of
\* lines 109-110 while the server writes the chunk (the client has gone
\* away), GeneratorExit is raised there and the sequence ends without the
\* sleep of line 112.  Created and not yet started (the server pulls no
\* chunk, as for a HEAD request), the generator is closed before any line
\* of its body has run and the response body is empty.  In both cases
\* is_streaming and the camera stay as they are.
Close(t) ==
  /\ \/ pc[t] = "created"
     \/ pc[t] = "sleep" /\ out[t] # "none"
  /\ EndSequence(t, "ended_close")
  /\ UNCHANGED <<is_streaming, camVars, detVars, detObs, iterVars, tried,
                 main, stalled, emitted>>

\* generate_frames, line 112.
Sleep(t) ==
  /\ pc[t] = "sleep"
  /\ out' = [out EXCEPT ![t] = "none"]
  /\ exc' = [exc EXCEPT ![t] = FALSE]
  /\ unslept' = [unslept EXCEPT ![t] = FALSE]
  /\ Goto(t, "loop")
  /\ UNCHANGED <<is_streaming, camVars, detVars, detObs, cap, frame, tried,
                 main, stalled, emitted, late, carried>>

\* app.run(threaded=True), line 218: the request's thread ends with its
\* response; the next request is served by a fresh one.
Finish(t) ==
  /\ pc[t] = "done"
  /\ pc' = [pc EXCEPT ![t] = "idle"]
  /\ resp' = [resp EXCEPT ![t] = "none"]
  /\ cap' = [cap EXCEPT ![t] = NoHandle]
  /\ frame' = [frame EXCEPT ![t] = "none"]
  /\ exc' = [exc EXCEPT ![t] = FALSE]
  /\ out' = [out EXCEPT ![t] = "none"]
  /\ tried' = [tried EXCEPT ![t] = FALSE]
  /\ emitted' = [emitted EXCEPT ![t] = FALSE]
  /\ late' = [late EXCEPT ![t] = FALSE]
  /\ carried' = [carried EXCEPT ![t] = FALSE]
  /\ unslept' = [unslept EXCEPT ![t] = FALSE]
  /\ UNCHANGED <<is_streaming, camVars, detVars, detObs, main, stalled>>

\* ------------------------------------------------------------------ object detection
\* check_ultralytics_availability, lines 25-26: the cached answer is used.
Cached == OBJECT_DETECTION_AVAILABLE # "None"

\* enable_object_detection, line 159, into check_ultralytics_availability.
EnableObjectDetection(t) ==
  /\ pc[t] = "idle"
  /\ IF ~Cached
       THEN Goto(t, "en_import") /\ UNCHANGED lastLoadFailed
       ELSE IF OBJECT_DETECTION_AVAILABLE = "True"
              THEN Goto(t, "en_model") /\ UNCHANGED lastLoadFailed
              ELSE Reply(t, "error") /\ lastLoadFailed' = FALSE
  /\ UNCHANGED <<is_streaming, camVars, detVars, installed, imports, loadsOk,
                 iterVars, tried, main, stalled, emitObs>>

\* check_ultralytics_availability, lines 28-38: the import attempt, and the
\* return into the caller (enable_object_detection line 159,
\* initialize_object_detection_model line 45, object_detection_status
\* line 200).
Import(t) ==
  /\ pc[t] \in {"en_import", "init_import", "st_import"}
  /\ imports' = imports + 1
  /\ IF installed
       THEN /\ YOLO' = "class"
            /\ OBJECT_DETECTION_AVAILABLE' = "True"
       ELSE /\ OBJECT_DETECTION_AVAILABLE' = "False"
            /\ YOLO' = "None"
  /\ CASE pc[t] = "st_import" ->
            Reply(t, "status") /\ UNCHANGED <<tried, lastLoadFailed>>
       [] pc[t] = "en_import" /\ installed ->
            Goto(t, "en_model") /\ UNCHANGED <<tried, lastLoadFailed>>
       [] pc[t] = "init_import" /\ installed ->
            /\ Goto(t, "loading")
            /\ tried' = [tried EXCEPT ![t] = TRUE]
            /\ UNCHANGED lastLoadFailed
       [] OTHER ->
            /\ Reply(t, "error")
            /\ lastLoadFailed' = FALSE
            /\ UNCHANGED tried
  /\ UNCHANGED <<is_streaming, camVars, object_detection_model,
                 object_detection_enabled, installed, loadsOk, iterVars, main,
                 stalled, emitObs>>

\* enable_object_detection, line 162.
EnModel(t) ==
  /\ pc[t] = "en_model"
  /\ Goto(t, IF object_detection_model = "None" THEN "init_avail" ELSE "en_set")
  /\ UNCHANGED <<is_streaming, camVars, detVars, detObs, iterVars, tried,
                 main, stalled, emitObs>>

\* initialize_object_detection_model, lines 45-55: the availability is read
\* again, then YOLO(model_path) is called (tried: the loader was called).
InitAvail(t) ==
  /\ pc[t] = "init_avail"
  /\ IF ~Cached
       THEN Goto(t, "init_import") /\ UNCHANGED <<tried, lastLoadFailed>>
       ELSE IF OBJECT_DETECTION_AVAILABLE = "True"
              THEN /\ Goto(t, "loading")
                   /\ tried' = [tried EXCEPT ![t] = TRUE]
                   /\ UNCHANGED lastLoadFailed
              ELSE /\ Reply(t, "error")
                   /\ lastLoadFailed' = FALSE
                   /\ UNCHANGED tried
  /\ UNCHANGED <<is_streaming, camVars, detVars, installed, imports, loadsOk,
                 iterVars, main, stalled, emitObs>>

\* a failed load remembered in object_detection_model
LoadFailRemembered == "failed"

\* initialize_object_detection_model, line 60: what a failed load leaves in
\* object_detection_model.
LoadFailValue == "None"

\* initialize_object_detection_model, lines 55-61, and
\* enable_object_detection, lines 168-170: the load ends; its result is
\* stored on success, None on an exception.
LoadEnd(t) ==
  /\ pc[t] = "loading"
  /\ \E ok \in BOOLEAN :
       IF ok
         THEN /\ object_detection_model' = "model"
              /\ loadsOk' = IF loadsOk < MaxLoads THEN loadsOk + 1 ELSE loadsOk
              /\ Goto(t, "en_set")
              /\ UNCHANGED lastLoadFailed
         ELSE /\ object_detection_model' = LoadFailValue
              /\ Reply(t, "error")
              /\ lastLoadFailed' = TRUE
              /\ UNCHANGED loadsOk
  /\ UNCHANGED <<is_streaming, camVars, OBJECT_DETECTION_AVAILABLE, YOLO,
                 object_detection_enabled, installed, imports, iterVars, tried,
                 main, stalled, emitObs>>

\* enable_object_detection, lines 165-167 and 172-174.
EnSet(t) ==
  /\ pc[t] = "en_set"
  /\ object_detection_enabled' = TRUE
  /\ Reply(t, "enabled")
  /\ lastLoadFailed' = FALSE
  /\ UNCHANGED <<is_streaming, camVars, OBJECT_DETECTION_AVAILABLE, YOLO,
                 object_detection_model, installed, imports, loadsOk, iterVars,
                 tried, main, stalled, emitObs>>

\* disable_object_detection, lines 181-182.
DisableObjectDetection(t) ==
  /\ pc[t] = "idle"
  /\ object_detection_enabled' = FALSE
  /\ Reply(t, "disabled")
  /\ UNCHANGED <<is_streaming, camVars, OBJECT_DETECTION_AVAILABLE, YOLO,
                 object_detection_model, detObs, iterVars, tried, main,
                 stalled, emitObs>>

\* object_detection_status, line 199.
ObjectDetectionStatus(t) ==
  /\ pc[t] = "idle"
  /\ IF OBJECT_DETECTION_AVAILABLE = "None"
       THEN Goto(t, "st_avail")
       ELSE Reply(t, "status")
  /\ UNCHANGED <<is_streaming, camVars, detVars, detObs, iterVars, tried,
                 main, stalled, emitObs>>

\* object_detection_status, line 200, into check_ultralytics_availability
\* (line 25); lines 202-208 build the answer.
StAvail(t) ==
  /\ pc[t] = "st_avail"
  /\ IF ~Cached
       THEN Goto(t, "st_import")
       ELSE Reply(t, "status")
  /\ UNCHANGED <<is_streaming, camVars, detVars, detObs, iterVars, tried,
                 main, stalled, emitObs>>

\* ------------------------------------------------------------------ specifications
\* a step of a request already being served
Continue(t) ==
  \/ StartSet(t) \/ StopSet(t)
  \/ LoopCheck(t) \/ GcEnter(t) \/ GcOpen(t) \/ GcReturn(t) \/ Read(t)
  \/ Detect(t) \/ DetectModel(t) \/ Infer(t) \/ Encode(t) \/ Sleep(t)
  \/ Import(t) \/ EnModel(t) \/ InitAvail(t) \/ LoadEnd(t) \/ EnSet(t)
  \/ StAvail(t)
  \/ Finish(t)

\* a JSON request arrives
Control(t) ==
  \/ StartStream(t) \/ StopStream(t)
  \/ EnableObjectDetection(t) \/ DisableObjectDetection(t)
  \/ ObjectDetectionStatus(t)

MainStep == Shutdown \/ RcEnter \/ RcRelease

Next ==
  \/ \E t \in Threads : Control(t)
  \/ \E t \in Threads : VideoFeed(t)
  \/ \E t \in Threads : Continue(t)
  \/ \E t \in Threads : Close(t)
  \/ MainStep

Spec == Init /\ [][Next]_vars

\* JSON requests served one after another: a new one arrives only when no
\* other is being served (frame sequences and shutdown still interleave).
NextSeq ==
  \/ \E t \in Threads : ~ControlBusy /\ Control(t)
  \/ \E t \in Threads : VideoFeed(t)
  \/ \E t \in Threads : Continue(t)
  \/ \E t \in Threads : Close(t)
  \/ MainStep

SpecSeq == Init /\ [][NextSeq]_vars

\* The stream alone: /start_stream, /stop_stream, /video_feed and shutdown,
\* with no object-detection request ever made (detection stays disabled, so
\* line 96 always falls through to the encoding).
StreamContinue(t) ==
  \/ StartSet(t) \/ StopSet(t)
  \/ LoopCheck(t) \/ GcEnter(t) \/ GcOpen(t) \/ GcReturn(t) \/ Read(t)
  \/ Detect(t) \/ Encode(t) \/ Sleep(t)
  \/ Finish(t)

NextStream ==
  \/ \E t \in Threads : StartStream(t) \/ StopStream(t)
  \/ \E t \in Threads : VideoFeed(t)
  \/ \E t \in Threads : StreamContinue(t)
  \/ \E t \in Threads : Close(t)
  \/ MainStep

SpecStream == Init /\ [][NextStream]_vars

\* /start_stream and /stop_stream served one after another: a new one
\* arrives only when no other is being served (frame sequences and shutdown
\* still interleave with them).
NextStreamSeq ==
  \/ \E t \in Threads : ~ControlBusy /\ (StartStream(t) \/ StopStream(t))
  \/ \E t \in Threads : VideoFeed(t)
  \/ \E t \in Threads : StreamContinue(t)
  \/ \E t \in Threads : Close(t)
  \/ MainStep

SpecStreamSeq == Init /\ [][NextStreamSeq]_vars

\* Object detection alone: the enable, disable and status requests served
\* one after another, with no stream.
DetectContinue(t) ==
  \/ Import(t) \/ EnModel(t) \/ InitAvail(t) \/ LoadEnd(t) \/ EnSet(t)
  \/ StAvail(t)
  \/ Finish(t)

NextDetectSeq ==
  \/ \E t \in Threads : ~ControlBusy /\ EnableObjectDetection(t)
  \/ \E t \in Threads : ~ControlBusy /\ DisableObjectDetection(t)
  \/ \E t \in Threads : ~ControlBusy /\ ObjectDetectionStatus(t)
  \/ \E t \in Threads : DetectContinue(t)

SpecDetectSeq == Init /\ [][NextDetectSeq]_vars

\* The frame loop with object detection: streaming is started and never
\* stopped, the server keeps serving, and enable and disable requests come
\* in any interleaving with the frame sequences.
AnnotateContinue(t) ==
  \/ StartSet(t)
  \/ LoopCheck(t) \/ GcEnter(t) \/ GcOpen(t) \/ GcReturn(t) \/ Read(t)
  \/ Detect(t) \/ DetectModel(t) \/ Infer(t) \/ Encode(t) \/ Sleep(t)
  \/ Import(t) \/ EnModel(t) \/ InitAvail(t) \/ LoadEnd(t) \/ EnSet(t)
  \/ Finish(t)

NextAnnotate ==
  \/ \E t \in Threads : StartStream(t)
  \/ \E t \in Threads : EnableObjectDetection(t)
  \/ \E t \in Threads : DisableObjectDetection(t)
  \/ \E t \in Threads : VideoFeed(t)
  \/ \E t \in Threads : AnnotateContinue(t)
  \/ \E t \in Threads : Close(t)

SpecAnnotate == Init /\ [][NextAnnotate]_vars

\* a request's scheduling: a thread that can take a step of its request
\* eventually takes one, and release_camera, once called, runs on
Fairness ==
  /\ \A t \in Threads : WF_vars(Continue(t))
  /\ WF_vars(RcEnter \/ RcRelease)

SpecFair == Spec /\ Fairness

SpecStreamFair ==
  /\ SpecStream
  /\ \A t \in Threads : WF_vars(StreamContinue(t))
  /\ WF_vars(RcEnter \/ RcRelease)

\* ------------------------------------------------------------------ claims
\* thread t answers its request in this step
Answers(t) == resp[t] = "none" /\ resp'[t] # "none"
\* thread t emits a camera frame in this step
Emits(t) == pc[t] = "encode" /\ out'[t] # "none"
\* capture handles open in the process
Live == {h \in 1..opened : h \notin released}

\* C1: with start_stream and stop_stream requests served one after another,
\* start reports `started` and switches Idle to Streaming exactly when the
\* state was Idle, and `already_streaming` with the flag left on when it
\* was Streaming; stop reports `stopped` and switches Streaming to Idle
\* exactly when it was Streaming, and `already_stopped` with the flag left
\* off when it was Idle.
C1_StartStopAlternate ==
  [][\A t \in Threads : Answers(t) =>
       /\ resp'[t] = "started" => ~is_streaming /\ is_streaming'
       /\ resp'[t] = "already_streaming" => is_streaming /\ is_streaming'
       /\ resp'[t] = "stopped" => is_streaming /\ ~is_streaming'
       /\ resp'[t] = "already_stopped" => ~is_streaming /\ ~is_streaming'
    ]_vars

\* C1 witness: a stop has switched Streaming to Idle and a second stop has
\* found it Idle.
C1_Witness ==
  \E t, u \in Threads :
    /\ resp[t] = "stopped" /\ resp[u] = "already_stopped" /\ ~is_streaming

\* C2: at most one capture handle is open in the process (opens minus
\* releases is 0 or 1), threads that called get_camera() while no handle
\* existed caused one open only, and every caller holds that same handle.
C2_OneHandle ==
  /\ Cardinality(Live) <= 1
  /\ opened - Cardinality(released) \in {0, 1}
  /\ \A t \in Threads : pc[t] = "read" =>
       cap[t] # NoHandle /\ (cap[t] = camera \/ cap[t] \in released)
  /\ \A t, u \in Threads :
       pc[t] = "read" /\ pc[u] = "read" /\ IsOpen(cap[t]) /\ IsOpen(cap[u])
         => cap[t] = cap[u]

\* C2 witness: two threads have returned from get_camera() with the same
\* handle after a single open.
C2_Witness ==
  \E t, u \in Threads :
    /\ t # u /\ pc[t] = "read" /\ pc[u] = "read"
    /\ cap[t] = cap[u] /\ cap[t] = camera /\ opened = 1 /\ released = {}

\* C3: the import attempt of check_ultralytics_availability runs at most
\* once in the life of the process, however many threads call the probe.
C3_ProbeOnce == imports <= 1

\* C4: with enable requests served one after another, a failed model load
\* answers `error` and leaves the model unloaded until the next enable
\* request; that request calls the loader again, answers `enabled` with
\* the model loaded and detection enabled when the load succeeds, and
\* `error` with the model unloaded when it fails again.
C4_RetryAfterFailedLoad ==
  /\ [](lastLoadFailed /\ (\A t \in Threads : pc[t] \notin {"loading", "en_set"})
          => object_detection_model = "None")
  /\ [][\A t \in Threads :
          /\ pc[t] = "loading" /\ pc'[t] = "done" =>
               resp'[t] = "error" /\ object_detection_model' = "None"
          /\ pc[t] = "loading" /\ pc'[t] = "en_set" =>
               object_detection_model' = "model"
          /\ lastLoadFailed /\ Answers(t) /\ resp'[t] \in {"enabled", "error"} =>
               /\ tried[t]
               /\ resp'[t] = "enabled" =>
                    object_detection_model' = "model" /\ object_detection_enabled'
               /\ resp'[t] = "error" => object_detection_model' = "None"
          /\ pc[t] = "en_set" /\ pc'[t] # "en_set" => resp'[t] = "enabled"
       ]_vars

\* C4 witness: one enable request has failed in the load and a later one
\* has loaded the model and answered `enabled`.
C4_Witness ==
  \E t, u \in Threads :
    /\ t # u /\ resp[u] = "error" /\ tried[u]
    /\ resp[t] = "enabled" /\ tried[t]
    /\ object_detection_model = "model" /\ object_detection_enabled

\* C5: no model load is started while another is in progress or after the
\* model is loaded, and the model is loaded successfully at most once.
C5_NoDoubleLoad ==
  /\ Cardinality({t \in Threads : pc[t] = "loading"}) <= 1
  /\ \A t \in Threads : pc[t] = "loading" => object_detection_model = "None"
  /\ loadsOk <= 1

\* C6 as stated: an inference exception never ends the frame sequence, the
\* iteration in which it is raised still emits a chunk, that chunk is the
\* original frame, and the loop goes on to the next iteration while
\* streaming is enabled.
C6_ChunkDespiteException ==
  [][\A t \in Threads :
       /\ pc[t] = "infer" /\ exc'[t] => pc'[t] = "encode" /\ frame'[t] = "raw"
       /\ pc[t] = "encode" /\ exc[t] /\ pc'[t] # "encode" =>
            out'[t] = "raw" /\ pc'[t] = "sleep"
       /\ pc[t] = "sleep" /\ pc'[t] # "sleep" => pc'[t] = "loop"
       /\ pc[t] = "loop" /\ is_streaming /\ pc'[t] # "loop" => pc'[t] = "gc_lock"
    ]_vars

\* C6 amended: an inference exception never ends the frame sequence; the
\* iteration in which it is raised emits a chunk unless the JPEG encoding
\* fails, a chunk it emits is the original frame, never an annotated one,
\* and the loop goes on to the next iteration while streaming is enabled,
\* unless the server closes the response at the yield of the chunk.
C6_RawFrameAfterException ==
  [][\A t \in Threads :
       /\ pc[t] = "infer" /\ exc'[t] => pc'[t] = "encode" /\ frame'[t] = "raw"
       /\ pc[t] = "encode" /\ exc[t] /\ pc'[t] # "encode" =>
            out'[t] \in {"raw", "none"} /\ pc'[t] = "sleep"
       /\ pc[t] = "sleep" /\ pc'[t] # "sleep" =>
            \/ pc'[t] = "loop"
            \/ out[t] # "none" /\ pc'[t] = "done" /\ resp'[t] = "ended_close"
       /\ pc[t] = "loop" /\ is_streaming /\ pc'[t] # "loop" => pc'[t] = "gc_lock"
    ]_vars

\* C6 witness: the iteration in which the inference raised has emitted the
\* raw frame.
C6_Witness ==
  \E t \in Threads : pc[t] = "sleep" /\ exc[t] /\ out[t] = "raw"

\* C7: a /video_feed request that finds the state Idle yields exactly one
\* chunk, the black placeholder, and ends without the camera handle.
C7_PlaceholderChunk ==
  \A t \in Threads :
    pc[t] = "done" /\ resp[t] \in {"placeholder", "error500"} =>
      /\ resp[t] = "placeholder"
      /\ emitted[t] /\ out[t] = "black"
      /\ cap[t] = NoHandle

\* C8: no frame-pipeline thread reads a frame from a handle that
\* release_camera has closed or is closing.
C8_NoReadOfReleasedHandle ==
  [][\A t \in Threads : pc[t] = "read" /\ pc'[t] # "read" =>
       /\ IsOpen(cap[t])
       /\ ~(main = "rc_release" /\ camera = cap[t])
    ]_vars

\* C9 as stated: once a frame loop has ended on a failed acquisition or
\* read, no sequence emits a camera frame until streaming is restarted.
C9_NoFramesUntilRestart ==
  [][stalled /\ stalled' => \A t \in Threads : ~Emits(t)]_vars

\* C9 amended: a frame loop that ends on a failed acquisition or read ends
\* its own sequence only: the sequence is not resumed, and is_streaming
\* is left as it was, so other sequences and new /video_feed connections
\* emit camera frames without a restart.
C9_FailureEndsItsSequenceOnly ==
  [][\A t \in Threads :
       /\ Answers(t) /\ resp'[t] \in {"ended_acquire", "ended_read"} =>
            is_streaming' = is_streaming /\ pc'[t] = "done"
       /\ pc[t] = "done" => pc'[t] \in {"done", "idle"}
       /\ pc[t] = "done" /\ pc'[t] = "done" =>
            emitted'[t] = emitted[t] /\ out'[t] = out[t]
    ]_vars

\* C9 witness: one sequence has ended on a failed read, streaming is still
\* on, and another sequence has emitted a camera frame.
C9_Witness ==
  \E t, u \in Threads :
    /\ pc[t] = "done" /\ resp[t] = "ended_read" /\ stalled /\ is_streaming
    /\ pc[u] = "sleep" /\ out[u] = "raw"

\* C10: once stop_stream has switched Streaming to Idle, and as long as no
\* start_stream switches it back, a frame sequence emits at most one more
\* chunk, and under fair scheduling it ends.
C10_CooperativeCancel ==
  /\ [][\A t \in Threads :
          Emits(t) /\ ~is_streaming => ~late[t]]_vars
  /\ \A t \in Threads :
       (InLoop(t) /\ ~is_streaming) ~> (is_streaming \/ ~InLoop(t))

\* C10 witness: a sequence has emitted the chunk of the iteration that was
\* in progress when streaming was stopped, and has not yet looked at the
\* flag again.
C10_Witness ==
  \E t \in Threads :
    /\ pc[t] = "sleep" /\ out[t] # "none" /\ late[t] /\ ~is_streaming

\* C11 as stated: a sequence that was active when stop_stream switched the
\* state to Idle emits no chunk once a later start_stream has switched it
\* back to Streaming.
C11_NoChunkAcrossRestart ==
  [][\A t \in Threads : Emits(t) => ~carried[t]]_vars

\* C11 amended: a sequence that finds the state Idle at the top of an
\* iteration ends there (one not yet started may also be closed by the
\* server instead), and an ended sequence is never resumed, whatever
\* start_stream does afterwards; only a sequence that has not ended emits,
\* which includes one that was active across a stop and a restart without
\* testing the flag in between.
C11_EndedNotResumed ==
  [][\A t \in Threads :
       /\ pc[t] \in {"created", "loop"} /\ ~is_streaming /\ pc'[t] # pc[t] =>
            /\ pc'[t] = "done"
            /\ \/ resp'[t] = "ended_stop"
               \/ pc[t] = "created" /\ resp'[t] = "ended_close"
       /\ resp[t] = "ended_stop" =>
            /\ pc'[t] \in {"done", "idle"}
            /\ pc'[t] = "done" => emitted'[t] = emitted[t] /\ out'[t] = out[t]
       /\ Emits(t) => resp[t] = "none" /\ pc'[t] # "done"
    ]_vars

\* C11 witness: a sequence that lived through a stop and a restart has
\* emitted a chunk after the restart.
C11_Witness ==
  \E t \in Threads :
    /\ carried[t] /\ is_streaming
    /\ pc[t] = "sleep" /\ out[t] # "none"

\* C12: once the finally block of __main__ has run release_camera, however
\* the server loop ended, no capture handle is open: the shared handle is
\* None and no frame-pipeline thread opens one again.
C12_ClosedAfterShutdown ==
  main = "finally_done" => camera = NoHandle /\ Live = {}

\* C13: an iteration of the frame loop that reaches the encoding goes on to
\* time.sleep whether or not a chunk was emitted, unless the sequence ends
\* at the yield of its chunk; the next iteration begins only after that
\* sleep, and so a sequence that emits a chunk after an earlier one has
\* slept in between.
C13_SleepOncePerIteration ==
  [][\A t \in Threads :
       /\ pc[t] = "encode" /\ pc'[t] # "encode" => pc'[t] = "sleep"
       /\ pc[t] = "sleep" /\ pc'[t] # "sleep" =>
            \/ pc'[t] = "loop" /\ ~unslept'[t]
            \/ out[t] # "none" /\ pc'[t] = "done" /\ resp'[t] = "ended_close"
       /\ pc[t] # "loop" /\ pc'[t] = "loop" => pc[t] = "sleep"
       /\ Emits(t) => ~unslept[t]
    ]_vars

\* C13 witness: a sequence that has emitted a chunk and slept is about to
\* encode the frame of a later iteration.
C13_Witness ==
  \E t \in Threads : pc[t] = "encode" /\ emitted[t] /\ ~unslept[t]

\* C14: when a frame read fails and the frame loop ends, the camera handle
\* is released: as the sequence ends the shared handle is None and no
\* capture handle is open.
C14_ReleasedOnReadFailure ==
  [][\A t \in Threads :
       Answers(t) /\ resp'[t] = "ended_read" =>
         camera' = NoHandle /\ Live' = {}
    ]_vars

\* C15: an open that fails leaves the shared handle None and get_camera
\* returns None to its caller without raising; a call that finds no handle
\* makes an open attempt of its own, and a call that finds a handle returns
\* it, with the shared handle unchanged and no open attempt.
C15_FailedOpenLeavesNoHandle ==
  [][\A t \in Threads :
       /\ pc[t] = "gc_lock" /\ pc'[t] # "gc_lock" =>
            /\ camera = NoHandle => pc'[t] = "gc_open"
            /\ camera # NoHandle =>
                 pc'[t] = "gc_ret" /\ camera' = camera /\ opened' = opened
       /\ pc[t] = "gc_open" /\ pc'[t] # "gc_open" =>
            /\ pc'[t] = "gc_ret"
            /\ opened' = opened => camera' = NoHandle
            /\ opened' # opened => camera' = opened' /\ IsOpen(camera')
       /\ pc[t] = "gc_ret" /\ pc'[t] # "gc_ret" =>
            /\ camera' = camera /\ opened' = opened
            /\ camera = NoHandle =>
                 resp'[t] = "ended_acquire" /\ cap'[t] = NoHandle
            /\ camera # NoHandle => pc'[t] = "read" /\ cap'[t] = camera
    ]_vars

\* C15 witness: one get_camera has failed to open the device and returned
\* None, and a later call has opened it and returned the handle.
C15_Witness ==
  \E t, u \in Threads :
    /\ pc[t] = "done" /\ resp[t] = "ended_acquire"
    /\ pc[u] = "read" /\ cap[u] = camera /\ IsOpen(camera)
    /\ opened = 1 /\ released = {}

\* the model-loaded state that object_detection_status reports
ModelLoaded == object_detection_model # "None"

\* C16: with the requests served one after another, an enable request that
\* answers `error` has changed neither the detection-enabled flag nor the
\* model-loaded state in any of its steps; when the capability is
\* unavailable it answers `error` without calling the loader, and a load
\* that fails answers `error`.
C16_FailedEnableChangesNothing ==
  [][/\ \A t \in Threads :
          /\ Answers(t) /\ resp'[t] = "error" =>
               /\ object_detection_enabled' = object_detection_enabled
               /\ ModelLoaded' = ModelLoaded
               /\ OBJECT_DETECTION_AVAILABLE' = "False" =>
                    ~tried'[t] /\ pc[t] # "loading"
          /\ pc[t] = "loading" /\ pc'[t] = "done" => resp'[t] = "error"
          /\ pc[t] = "loading" /\ pc'[t] = "en_set" => ModelLoaded'
          /\ pc[t] = "en_set" /\ pc'[t] # "en_set" => resp'[t] = "enabled"
     /\ object_detection_enabled' # object_detection_enabled
          \/ ModelLoaded' # ModelLoaded =>
          \E t \in Threads :
            \/ pc[t] = "loading" /\ pc'[t] = "en_set"
            \/ Answers(t) /\ resp'[t] \in {"enabled", "disabled"}
    ]_vars

\* C16 witness: an enable request has called the loader, the load has
\* failed, and the request has answered `error` with detection still
\* disabled and no model loaded.
C16_Witness ==
  \E t \in Threads :
    /\ pc[t] = "done" /\ resp[t] = "error" /\ tried[t]
    /\ ~object_detection_enabled /\ ~ModelLoaded

\* the iteration of thread t has read the flag as on and has not yet emitted
PastCheck(t) ==
  \/ pc[t] \in {"detect_model", "infer"}
  \/ pc[t] = "encode" /\ frame[t] = "annotated"

\* C17: in every iteration the inference is invoked exactly when the flag
\* was on as line 96 read it and a model was loaded as line 96 read it; a
\* frame is annotated by the inference only; and while the flag stays off
\* no iteration gets past the check, so a sequence emits an annotated frame
\* only from the iteration that was past the check when the flag went off,
\* and raw frames from every later one.
C17_AnnotatedOnlyIfEnabled ==
  [][\A t \in Threads :
       /\ pc[t] = "detect" /\ pc'[t] # "detect" =>
            /\ pc'[t] = (IF object_detection_enabled
                           THEN "detect_model" ELSE "encode")
            /\ frame'[t] = "raw"
       /\ pc[t] = "detect_model" /\ pc'[t] # "detect_model" =>
            /\ pc'[t] = (IF ModelLoaded THEN "infer" ELSE "encode")
            /\ frame'[t] = "raw"
       /\ pc[t] # "infer" /\ pc'[t] = "infer" => pc[t] = "detect_model"
       /\ frame[t] # "annotated" /\ frame'[t] = "annotated" => pc[t] = "infer"
       /\ out[t] # "annotated" /\ out'[t] = "annotated" =>
            PastCheck(t) /\ ~PastCheck(t)'
       /\ ~object_detection_enabled /\ ~object_detection_enabled' =>
            (PastCheck(t)' => PastCheck(t))
    ]_vars

\* C17 witness: disable_object_detection has completed, the flag is off,
\* and the iteration that was past the check holds an annotated frame that
\* it is about to emit.
C17_Witness ==
  \E t, u \in Threads :
    /\ pc[u] = "done" /\ resp[u] = "disabled" /\ ~object_detection_enabled
    /\ pc[t] = "encode" /\ frame[t] = "annotated"

\* C18: in every reachable state, whatever the interleaving of enable and
\* disable requests and whether loads succeed or fail, detection is
\* enabled only if a model is loaded.
C18_EnabledImpliesLoaded == object_detection_enabled => ModelLoaded

\* C19 as stated: of the start_stream requests that run concurrently from
\* Idle exactly one reports `started`, and of the stop_stream requests that
\* run concurrently from Streaming exactly one reports `stopped`: a request
\* reports `started` (`stopped`) only when its own write switched the state.
C19_ExactlyOneSwitches ==
  [][\A t \in Threads : Answers(t) =>
       /\ resp'[t] = "started" => ~is_streaming /\ is_streaming'
       /\ resp'[t] = "stopped" => is_streaming /\ ~is_streaming'
    ]_vars

\* C19 amended: a start_stream request reports `started` when it read the
\* state as Idle and `already_streaming` when it read it as Streaming, and
\* a request that reports `started` leaves the state Streaming; several
\* concurrent requests may all have read Idle and all report `started`.
\* Symmetrically for stop_stream and `stopped`.
C19_ReportsWhatItRead ==
  [][\A t \in Threads :
       /\ pc[t] = "idle" /\ pc'[t] = "start_set" =>
            ~is_streaming /\ ~is_streaming'
       /\ pc[t] = "idle" /\ pc'[t] = "stop_set" =>
            is_streaming /\ is_streaming'
       /\ pc[t] = "start_set" /\ pc'[t] # "start_set" =>
            pc'[t] = "done" /\ resp'[t] = "started" /\ is_streaming'
       /\ pc[t] = "stop_set" /\ pc'[t] # "stop_set" =>
            pc'[t] = "done" /\ resp'[t] = "stopped" /\ ~is_streaming'
       /\ Answers(t) /\ resp'[t] = "started" => pc[t] = "start_set"
       /\ Answers(t) /\ resp'[t] = "stopped" => pc[t] = "stop_set"
       /\ Answers(t) /\ resp'[t] = "already_streaming" =>
            pc[t] = "idle" /\ is_streaming /\ is_streaming'
       /\ Answers(t) /\ resp'[t] = "already_stopped" =>
            pc[t] = "idle" /\ ~is_streaming /\ ~is_streaming'
    ]_vars

\* C19 witness: of two start_stream requests that both read the state as
\* Idle, one has switched it and reported `started` and the other is about
\* to write the flag and report `started` as well.
C19_Witness ==
  \E t, u \in Threads :
    /\ t # u /\ is_streaming
    /\ pc[t] = "done" /\ resp[t] = "started"
    /\ pc[u] = "start_set"

\* C20: a /video_feed response whose camera could be opened and read never
\* has an empty body: a request that found the state Idle has yielded the
\* placeholder chunk, and a request that found it Streaming has yielded at
\* least one camera frame by the time its sequence ends on a stop or is
\* closed by the server.
C20_NeverEmptyBody ==
  \A t \in Threads :
    /\ pc[t] = "done"
    /\ resp[t] \in {"placeholder", "error500", "ended_stop", "ended_close"}
    => emitted[t]

====
